---- MODULE Spec2Model ----
(***************************************************************************)
(* TinyLink backend (src/tinylinkBackend/index.js): the Express handlers   *)
(* for create, visit, metadata, list and delete of short links over a      *)
(* Postgres table `links`, and the admin page's custom-code rule           *)
(* (src/unnamed/part_000).                                                 *)
(*                                                                         *)
(* A JavaScript string is modelled as the sequence of its characters, a    *)
(* value that may be undefined as a tuple of length 0 (undefined) or 1     *)
(* (the value).  Every `await` of a handler is a step boundary: an action  *)
(* is the code that runs between two awaits, together with the SQL         *)
(* statement whose result it consumes.                                     *)
(***************************************************************************)
EXTENDS Integers, Sequences, FiniteSets, TLC

VARIABLES
    links,      \* the rows of table links
    now,        \* the store's clock, NOW()
    reqs,       \* the HTTP requests: inputs, handler position, locals, response
    clients,    \* the requests holding a pool client
    links0      \* the rows the table held when the server started

vars == <<links, now, reqs, clients, links0>>

----------------------------------------------------------------------------
(* Bounds *)

\* number of HTTP requests of one run
NumReq == 2

Reqs == 1..NumReq

----------------------------------------------------------------------------
(* JavaScript values *)

Undefined == <<>>
Str(s) == <<s>>
NULL == <<>>

Upper == {"A","B","C","D","E","F","G","H","I","J","K","L","M",
          "N","O","P","Q","R","S","T","U","V","W","X","Y","Z"}
Lower == {"a","b","c","d","e","f","g","h","i","j","k","l","m",
          "n","o","p","q","r","s","t","u","v","w","x","y","z"}
Digit == {"0","1","2","3","4","5","6","7","8","9"}

\* a test for undefined alone: "" counts as a value
FalsyUndefinedOnly(v) == v = Undefined

\* !v for a string or undefined: undefined and "" are falsy
Falsy(v) == v = Undefined \/ v[1] = <<>>

\* CODE_RE.test(s) for /^[A-Za-z0-9]{6,8}$/
CODE_RE(s) ==
    /\ Len(s) >= 6
    /\ Len(s) <= 8
    /\ \A i \in 1..Len(s) : s[i] \in Upper \cup Lower \cup Digit

\* the alphabet of genCode
chars == <<"A","B","C","D","E","F","G","H","I","J","K","L","M",
           "N","O","P","Q","R","S","T","U","V","W","X","Y","Z",
           "a","b","c","d","e","f","g","h","i","j","k","l","m",
           "n","o","p","q","r","s","t","u","v","w","x","y","z",
           "0","1","2","3","4","5","6","7","8","9">>

\* the values of Math.floor(Math.random() * chars.length) a run draws from,
\* as indexes of chars (JavaScript's 0 and 61)
RandomDraws == {1, Len(chars)}

\* genCode(len): the codes a call may return; each run of the loop appends
\* chars[draw].  The model draws one index per call.
genCodeShort(len) == {[i \in 1..(len - 2) |-> chars[k]] : k \in RandomDraws}
genCode(len) == {[i \in 1..len |-> chars[k]] : k \in RandomDraws}

\* the bound of the generation loop
maxAttempts == 10

----------------------------------------------------------------------------
(* The admin page's rule for a custom code *)

\* s.trim() for the whitespace character " "
RECURSIVE TrimLeft(_)
TrimLeft(s) == IF s # <<>> /\ Head(s) = " " THEN TrimLeft(Tail(s)) ELSE s

RECURSIVE TrimRight(_)
TrimRight(s) ==
    IF s # <<>> /\ s[Len(s)] = " " THEN TrimRight(SubSeq(s, 1, Len(s) - 1)) ELSE s

Trim(s) == TrimRight(TrimLeft(s))

\* validateCustomCode(code): {ok} and, for a code that passes, the trimmed
\* code; an empty code is allowed and yields no code
validateCustomCode(s) ==
    LET c == Trim(s)
    IN  IF s = <<>> THEN [ok |-> TRUE, code |-> Undefined]
        ELSE IF Len(c) < 4 \/ Len(c) > 12 THEN [ok |-> FALSE, code |-> Undefined]
        ELSE IF ~(c # <<>> /\ \A i \in 1..Len(c) :
                      c[i] \in Upper \cup Lower \cup Digit \cup {"-", "_"})
        THEN [ok |-> FALSE, code |-> Undefined]
        ELSE [ok |-> TRUE, code |-> Str(c)]

----------------------------------------------------------------------------
(* Targets.  A target string is modelled by its RFC 3986 split.            *)

Url(scheme, authority, path) ==
    [scheme |-> scheme, authority |-> authority, path |-> path]

\* "": the empty string
EmptyUrl == Url("", "", "")

T1 == Str(Url("http", "a.io", ""))
T2 == Str(Url("https", "b.io", "/x"))

\* !target
FalsyTarget(t) == t = Undefined \/ t[1] = EmptyUrl

\* validUrl.isWebUri(u): an http or https URI with an authority
isWebUri(u) == u.scheme \in {"http", "https"} /\ u.authority # ""

----------------------------------------------------------------------------
(* The table links.  A row carries the identity `id` of its insertion (0   *)
(* for a row present at start, the request for a row a request inserted).  *)

Row(id, code, target, clicks, created_at, last_clicked) ==
    [id |-> id, code |-> code, target |-> target, clicks |-> clicks,
     created_at |-> created_at, last_clicked |-> last_clicked]

\* the column defaults of table links: clicks 0, created_at NOW(),
\* last_clicked NULL
NewRow(id, code, target, t) == Row(id, code, target, 0, t, NULL)

\* a table without the constraint
NoUniqueViolation(rows, code) == FALSE

\* the uniqueness constraint of table links on column code
UniqueViolation(rows, code) == \E row \in rows : row.code = code

\* WHERE code = $1
WhereCode(rows, code) == {row \in rows : row.code = code}

\* q.rowCount
rowCount(q) == Cardinality(q)

\* q.rows[0] of a result that has rows
FirstRow(q) == CHOOSE row \in q : TRUE

\* SET last_clicked = NOW() alone
SetClicksNoIncrement(row, t) == [row EXCEPT !.last_clicked = <<t>>]

\* SET clicks = clicks + 1, last_clicked = NOW(), created_at = NOW()
SetClicksStamping(row, t) ==
    [row EXCEPT !.clicks = @ + 1, !.last_clicked = <<t>>, !.created_at = t]

\* SET clicks = clicks + 1, last_clicked = NOW()
SetClicks(row, t) ==
    [row EXCEPT !.clicks = @ + 1, !.last_clicked = <<t>>]

\* NOW() of a statement: the clock has moved on since the last statement, or
\* it has not (two statements may see the same time)
Ticks == {0, 1}

----------------------------------------------------------------------------
(* Requests and responses *)

NoBody == <<>>

Response(status, error, body) ==
    [status |-> status, error |-> error, body |-> body]

NoResponse == Response(0, "", NoBody)

\* the JSON of a link: code, target, clicks, created_at, last_clicked
\* (shortUrl is resolvedBaseUrl + "/" + code, a function of code)
LinkJson(row) ==
    [code |-> row.code, target |-> row.target, clicks |-> row.clicks,
     created_at |-> row.created_at, last_clicked |-> row.last_clicked]

\* req.query of a request without query string
NoQuery == [limit |-> Undefined, offset |-> Undefined]

IdleRequest ==
    [pc |-> "idle", kind |-> "none", target |-> Undefined, code |-> Undefined,
     test |-> FALSE, query |-> NoQuery, finalCode |-> Undefined,
     attempts |-> 0, limit |-> 0, offset |-> 0, failure |-> "none",
     resp |-> NoResponse]

\* requests are anonymous: they are numbered in the order they arrive
Arrives(r) ==
    /\ reqs[r].pc = "idle"
    /\ IF r = 1 THEN TRUE ELSE reqs[r - 1].pc # "idle"

InFlight(r) == reqs[r].pc \notin {"idle", "done"}

----------------------------------------------------------------------------
(* POST /api/links *)

\* the server applies the admin page's rule
CodeRejectedByClientRule(code) ==
    ~Falsy(code) /\ ~validateCustomCode(code[1]).ok

\* code && !CODE_RE.test(code)
CodeRejected(code) == ~Falsy(code) /\ ~CODE_RE(code[1])

\* the code is validated before the target
ValidateCodeFirst(target, code) ==
    IF CodeRejected(code) THEN "code must match [A-Za-z0-9]{6,8}"
    ELSE IF FalsyTarget(target) THEN "target is required"
    ELSE IF ~isWebUri(target[1]) THEN "invalid target URL"
    ELSE ""

\* the three validations of the handler, in their order: the error of the
\* 400 response, or "" when the body passes
Validate(target, code) ==
    IF FalsyTarget(target) THEN "target is required"
    ELSE IF ~isWebUri(target[1]) THEN "invalid target URL"
    ELSE IF CodeRejected(code) THEN "code must match [A-Za-z0-9]{6,8}"
    ELSE ""

\* the request arrives: validation, up to `await pool.connect()`
PostLinks(r, target, code) ==
    /\ Arrives(r)
    /\ LET q == [reqs[r] EXCEPT !.kind = "create", !.target = target,
                                !.code = code]
           error == Validate(target, code)
       IN  reqs' = [reqs EXCEPT ![r] =
             IF error # ""
             THEN [q EXCEPT !.pc = "done", !.resp = Response(400, error, NoBody)]
             ELSE [q EXCEPT !.pc = "connect"]]
    /\ UNCHANGED <<links, now, clients, links0>>

\* pool.connect() resolves; finalCode = code; with no code the generation
\* loop is entered with attempts = 0
CreateConnected(r) ==
    /\ reqs[r].pc = "connect"
    /\ reqs[r].kind = "create"
    /\ clients' = clients \cup {r}
    /\ reqs' = [reqs EXCEPT ![r].finalCode = reqs[r].code,
                            ![r].attempts = 0,
                            ![r].pc = IF Falsy(reqs[r].code) THEN "gen" ELSE "check"]
    /\ UNCHANGED <<links, now, links0>>

\* attempts <= maxAttempts
LoopAgainInclusive(attempts) == attempts <= maxAttempts

\* attempts < maxAttempts, the condition of the do-while
LoopAgain(attempts) == attempts < maxAttempts

\* attempts >= maxAttempts, the test after the loop
Exhausted(attempts) == attempts >= maxAttempts

\* what follows the loop: the exhaustion test, then the INSERT is sent
AfterLoop(r, finalCode, attempts) ==
    IF Exhausted(attempts)
    THEN /\ reqs' = [reqs EXCEPT ![r].pc = "done", ![r].attempts = attempts,
               ![r].finalCode = Str(finalCode),
               ![r].resp = Response(500,
                   "failed to generate unique code, try again", NoBody)]
         /\ clients' = clients \ {r}
    ELSE /\ reqs' = [reqs EXCEPT ![r].pc = "insert", ![r].attempts = attempts,
               ![r].finalCode = Str(finalCode)]
         /\ UNCHANGED clients

\* one turn of the generation loop: finalCode = genCode(7); SELECT 1 FROM
\* links WHERE code = finalCode; a free candidate leaves the loop (break), a
\* taken one counts an attempt and the loop goes on or ends.  (The draw does
\* not depend on the store, so it is taken with the SELECT that uses it; a
\* candidate the next turn overwrites is not kept.)
GenSelect(r) ==
    /\ reqs[r].pc = "gen"
    /\ \E finalCode \in genCode(7) :
         LET q == WhereCode(links, finalCode)
             attempts == reqs[r].attempts + 1
         IN  IF rowCount(q) = 0
             THEN AfterLoop(r, finalCode, reqs[r].attempts)
             ELSE IF LoopAgain(attempts)
             THEN /\ reqs' = [reqs EXCEPT ![r].attempts = attempts]
                  /\ UNCHANGED clients
             ELSE AfterLoop(r, finalCode, attempts)
    /\ UNCHANGED <<links, now, links0>>

\* q.rowCount > 1
TakenTwice(q) == rowCount(q) > 1

\* q.rowCount > 0
Taken(q) == rowCount(q) > 0

\* the existence check of a caller-supplied code
CheckExists(r) ==
    /\ reqs[r].pc = "check"
    /\ LET q == WhereCode(links, reqs[r].finalCode[1])
       IN  IF Taken(q)
           THEN /\ reqs' = [reqs EXCEPT ![r].pc = "done",
                      ![r].resp = Response(409, "code already exists", NoBody)]
                /\ clients' = clients \ {r}
           ELSE /\ reqs' = [reqs EXCEPT ![r].pc = "insert"]
                /\ UNCHANGED clients
    /\ UNCHANGED <<links, now, links0>>

\* INSERT INTO links(code, target) ... RETURNING: the store rejects a code
\* it holds, the handler's catch answers 500; else the row is stored and
\* returned with 201.  finally releases the client.
Insert(r) ==
    /\ reqs[r].pc = "insert"
    /\ IF UniqueViolation(links, reqs[r].finalCode[1])
       THEN /\ reqs' = [reqs EXCEPT ![r].pc = "done",
                  ![r].resp = Response(500, "server error", NoBody)]
            /\ UNCHANGED <<links, now>>
       ELSE \E d \in Ticks :
            LET row == NewRow(r, reqs[r].finalCode[1], reqs[r].target[1], now + d)
            IN  /\ now' = now + d
                /\ links' = links \cup {row}
                /\ reqs' = [reqs EXCEPT ![r].pc = "done",
                      ![r].resp = Response(201, "", <<LinkJson(row)>>)]
    /\ clients' = clients \ {r}
    /\ UNCHANGED links0

----------------------------------------------------------------------------
(* GET /:code *)

\* the request arrives, up to `await pool.connect()`
GetCode(r, code, test) ==
    /\ Arrives(r)
    /\ reqs' = [reqs EXCEPT ![r].kind = "visit", ![r].code = Str(code),
                            ![r].test = test, ![r].pc = "connect"]
    /\ UNCHANGED <<links, now, clients, links0>>

\* pool.connect() resolves and the UPDATE is sent
VisitConnected(r) ==
    /\ reqs[r].pc = "connect"
    /\ reqs[r].kind = "visit"
    /\ clients' = clients \cup {r}
    /\ reqs' = [reqs EXCEPT ![r].pc = "update"]
    /\ UNCHANGED <<links, now, links0>>

\* the UPDATE without its WHERE clause
UpdateAllReturning(rows, code, t) == {SetClicks(row, t) : row \in rows}

\* UPDATE links SET clicks = clicks + 1, last_clicked = NOW() WHERE code = $1
\* RETURNING target: one statement of the store
UpdateReturning(rows, code, t) ==
    (rows \ WhereCode(rows, code))
        \cup {SetClicks(row, t) : row \in WhereCode(rows, code)}

\* the UPDATE runs; no row: 404; else the target is sent as JSON (test = 1)
\* or as a redirect.  finally releases the client.
VisitUpdate(r) ==
    /\ reqs[r].pc = "update"
    /\ LET code == reqs[r].code[1]
           q == WhereCode(links, code)
       IN  IF rowCount(q) = 0
           THEN /\ reqs' = [reqs EXCEPT ![r].pc = "done",
                      ![r].resp = Response(404, "Not found", NoBody)]
                /\ UNCHANGED <<links, now>>
           ELSE \E d \in Ticks :
                /\ now' = now + d
                /\ links' = UpdateReturning(links, code, now + d)
                /\ reqs' = [reqs EXCEPT ![r].pc = "done",
                      ![r].resp = Response(IF reqs[r].test THEN 200 ELSE 302, "",
                                           <<FirstRow(q).target>>)]
    /\ clients' = clients \ {r}
    /\ UNCHANGED links0

----------------------------------------------------------------------------
(* GET /api/links/:code *)

GetLink(r, code) ==
    /\ Arrives(r)
    /\ reqs' = [reqs EXCEPT ![r].kind = "metadata", ![r].code = Str(code),
                            ![r].pc = "connect"]
    /\ UNCHANGED <<links, now, clients, links0>>

MetadataConnected(r) ==
    /\ reqs[r].pc = "connect"
    /\ reqs[r].kind = "metadata"
    /\ clients' = clients \cup {r}
    /\ reqs' = [reqs EXCEPT ![r].pc = "select"]
    /\ UNCHANGED <<links, now, links0>>

\* a lookup that counts as a visit: the statement of GET /:code in the
\* place of the SELECT
MetadataSelectCounting(r) ==
    /\ reqs[r].pc = "select"
    /\ LET q == WhereCode(links, reqs[r].code[1])
       IN  /\ reqs' = [reqs EXCEPT ![r].pc = "done", ![r].resp =
                IF rowCount(q) = 0
                THEN Response(404, "not found", NoBody)
                ELSE Response(200, "", <<LinkJson(FirstRow(q))>>)]
           /\ links' = UpdateReturning(links, reqs[r].code[1], now)
    /\ clients' = clients \ {r}
    /\ UNCHANGED <<now, links0>>

\* SELECT code, target, clicks, created_at, last_clicked FROM links WHERE
\* code = $1; no row: 404; else the row's JSON
MetadataSelect(r) ==
    /\ reqs[r].pc = "select"
    /\ LET q == WhereCode(links, reqs[r].code[1])
       IN  reqs' = [reqs EXCEPT ![r].pc = "done", ![r].resp =
             IF rowCount(q) = 0
             THEN Response(404, "not found", NoBody)
             ELSE Response(200, "", <<LinkJson(FirstRow(q))>>)]
    /\ clients' = clients \ {r}
    /\ UNCHANGED <<links, now, links0>>

----------------------------------------------------------------------------
(* DELETE /api/links/:code *)

DeleteLink(r, code) ==
    /\ Arrives(r)
    /\ reqs' = [reqs EXCEPT ![r].kind = "delete", ![r].code = Str(code),
                            ![r].pc = "connect"]
    /\ UNCHANGED <<links, now, clients, links0>>

DeleteConnected(r) ==
    /\ reqs[r].pc = "connect"
    /\ reqs[r].kind = "delete"
    /\ clients' = clients \cup {r}
    /\ reqs' = [reqs EXCEPT ![r].pc = "delete"]
    /\ UNCHANGED <<links, now, links0>>

\* the DELETE without its WHERE clause, once a row matches
DeleteAllReturning(rows, code) ==
    IF WhereCode(rows, code) = {} THEN rows ELSE {}

\* a delete that leaves the row in place
DeleteKeepsRow(rows, code) == rows

\* DELETE FROM links WHERE code = $1 RETURNING code
DeleteReturning(rows, code) == rows \ WhereCode(rows, code)

\* the DELETE runs; no row: 404; else {deleted: code}
DeleteQuery(r) ==
    /\ reqs[r].pc = "delete"
    /\ LET code == reqs[r].code[1]
           q == WhereCode(links, code)
       IN  /\ links' = DeleteReturning(links, code)
           /\ reqs' = [reqs EXCEPT ![r].pc = "done", ![r].resp =
                IF rowCount(q) = 0
                THEN Response(404, "not found", NoBody)
                ELSE Response(200, "", <<FirstRow(q).code>>)]
    /\ clients' = clients \ {r}
    /\ UNCHANGED <<now, links0>>

----------------------------------------------------------------------------
(* GET /api/links *)

\* the value of a decimal digit
DigitValue(c) ==
    CHOOSE n \in 0..9 : <<"0","1","2","3","4","5","6","7","8","9">>[n + 1] = c

\* the number written by the longest prefix of decimal digits of s, read
\* after the digits that gave acc
RECURSIVE ParseDigits(_, _)
ParseDigits(s, acc) ==
    IF s = <<>> THEN acc
    ELSE IF Head(s) \notin Digit THEN acc
    ELSE ParseDigits(Tail(s), 10 * acc + DigitValue(Head(s)))

\* a JavaScript number is <<n>>; NaN is the empty tuple
NaN == <<>>

\* parseInt(v, 10): leading blanks are skipped, a sign is read, then the
\* longest prefix of digits; NaN when there is no digit (the string
\* "undefined" of an absent value has none)
parseInt(v) ==
    IF v = Undefined THEN NaN
    ELSE LET s == TrimLeft(v[1])
             sign == IF s = <<>> THEN "" ELSE
                     IF Head(s) \in {"+", "-"} THEN Head(s) ELSE ""
             z == IF sign = "" THEN s ELSE Tail(s)
         IN  IF z = <<>> THEN NaN
             ELSE IF Head(z) \notin Digit THEN NaN
             ELSE <<(IF sign = "-" THEN -1 ELSE 1) * ParseDigits(z, 0)>>

\* n || d for a number n: NaN and 0 are falsy
OrDefault(n, d) == IF n = NaN THEN d ELSE IF n[1] = 0 THEN d ELSE n[1]

\* Math.min(a, b)
MathMin(a, b) == IF a <= b THEN a ELSE b

\* const limit = Math.min(100, parseInt(req.query.limit, 10) || 50)
limit(v) == MathMin(100, OrDefault(parseInt(v), 50))

\* const offset = parseInt(req.query.offset, 10) || 0
offset(v) == OrDefault(parseInt(v), 0)

\* the request arrives: limit and offset are computed, up to
\* `await pool.connect()`
GetLinks(r, query) ==
    /\ Arrives(r)
    /\ reqs' = [reqs EXCEPT ![r].kind = "list", ![r].query = query,
                            ![r].limit = limit(query.limit),
                            ![r].offset = offset(query.offset),
                            ![r].pc = "connect"]
    /\ UNCHANGED <<links, now, clients, links0>>

ListConnected(r) ==
    /\ reqs[r].pc = "connect"
    /\ reqs[r].kind = "list"
    /\ clients' = clients \cup {r}
    /\ reqs' = [reqs EXCEPT ![r].pc = "list"]
    /\ UNCHANGED <<links, now, links0>>

\* the rows whose created_at no row of the set exceeds
Newest(rows) ==
    {row \in rows : \A other \in rows : other.created_at <= row.created_at}

\* ORDER BY created_at ASC
RECURSIVE OrderByCreatedAtAsc(_)
OrderByCreatedAtAsc(rows) ==
    IF rows = {} THEN {<<>>}
    ELSE UNION {{Append(rest, row) : rest \in OrderByCreatedAtAsc(rows \ {row})}
                   : row \in Newest(rows)}

\* ORDER BY created_at DESC: the orders the store may return the rows in;
\* rows of one created_at come in any order
RECURSIVE OrderByCreatedAtDesc(_)
OrderByCreatedAtDesc(rows) ==
    IF rows = {} THEN {<<>>}
    ELSE UNION {{<<row>> \o rest : rest \in OrderByCreatedAtDesc(rows \ {row})}
                   : row \in Newest(rows)}

\* LIMIT $1 OFFSET $2 of an ordered result, for values the store accepts
LimitOffset(sorted, lim, off) ==
    SubSeq(sorted, off + 1, MathMin(Len(sorted), off + lim))

\* the store rejects a negative LIMIT and a negative OFFSET
RejectsLimitOffset(lim, off) == lim < 0 \/ off < 0

\* q.rows.map(...) and {count: rows.length, rows}
ListJson(rows) ==
    [count |-> Len(rows), rows |-> [i \in 1..Len(rows) |-> LinkJson(rows[i])]]

\* the SELECT runs: a statement the store rejects goes to the catch (500),
\* else the page is sent.  finally releases the client.
ListSelect(r) ==
    /\ reqs[r].pc = "list"
    /\ IF RejectsLimitOffset(reqs[r].limit, reqs[r].offset)
       THEN reqs' = [reqs EXCEPT ![r].pc = "done",
                ![r].resp = Response(500, "server error", NoBody)]
       ELSE \E sorted \in OrderByCreatedAtDesc(links) :
            reqs' = [reqs EXCEPT ![r].pc = "done",
                ![r].resp = Response(200, "",
                    <<ListJson(LimitOffset(sorted, reqs[r].limit,
                                           reqs[r].offset))>>)]
    /\ clients' = clients \ {r}
    /\ UNCHANGED <<links, now, links0>>

----------------------------------------------------------------------------
(* Inputs *)

\* codes of six and of seven characters; A7 and Z7 are the codes genCode(7)
\* draws in the model
R6 == <<"a","b","c","1","2","3">>
A7 == <<"A","A","A","A","A","A","A">>
Z7 == <<"9","9","9","9","9","9","9">>
\* a code the server's rule rejects
Short2 == <<"a","b">>

\* a target that is no web URI
Ftp == Str(Url("ftp", "a.io", ""))

\* the bodies {target, code} of the create requests of a run
CreateBodies ==
    {<<T1, Undefined>>, <<T1, Str(R6)>>, <<T1, Str(A7)>>,
     <<T1, Str(Short2)>>, <<Ftp, Undefined>>}

\* the :code path parameters of a run
PathCodes == {A7, Z7}

\* the table at start: empty, or two links, one visited once and one never
Row0 == Row(0, A7, T2[1], 1, 0, <<0>>)
Row1 == Row(0, R6, T1[1], 0, 0, NULL)

InitialTables == {{}, {Row0, Row1}}

----------------------------------------------------------------------------
(* Specification *)

Init ==
    /\ links \in InitialTables
    /\ links0 = links
    /\ now = 0
    /\ reqs = [r \in Reqs |-> IdleRequest]
    /\ clients = {}

\* the steps of the handlers once a request has arrived
Handle(r) ==
    \/ CreateConnected(r)
    \/ GenSelect(r)
    \/ CheckExists(r)
    \/ Insert(r)
    \/ VisitConnected(r)
    \/ VisitUpdate(r)
    \/ MetadataConnected(r)
    \/ MetadataSelect(r)
    \/ DeleteConnected(r)
    \/ DeleteQuery(r)

Next ==
    \E r \in Reqs :
        \/ \E body \in CreateBodies : PostLinks(r, body[1], body[2])
        \/ \E code \in PathCodes, test \in BOOLEAN : GetCode(r, code, test)
        \/ \E code \in PathCodes : GetLink(r, code)
        \/ \E code \in PathCodes : DeleteLink(r, code)
        \/ Handle(r)

Spec == Init /\ [][Next]_vars

----------------------------------------------------------------------------
(* Sequential callers: a request is sent when every earlier one has been   *)
(* answered.                                                               *)

Quiet == \A r \in Reqs : ~InFlight(r)

CreateBodiesSeq == CreateBodies \cup {<<T2, Undefined>>, <<T2, Str(R6)>>}
PathCodesSeq == {R6, A7, Z7}

NextSeq ==
    \E r \in Reqs :
        \/ Quiet /\ \E body \in CreateBodiesSeq : PostLinks(r, body[1], body[2])
        \/ Quiet /\ \E code \in PathCodesSeq, test \in BOOLEAN : GetCode(r, code, test)
        \/ Quiet /\ \E code \in PathCodesSeq : GetLink(r, code)
        \/ Quiet /\ \E code \in PathCodesSeq : DeleteLink(r, code)
        \/ Handle(r)

SpecSeq == Init /\ [][NextSeq]_vars

----------------------------------------------------------------------------
(* Sequential create requests over a wide range of bodies *)

\* targets: absent, "", two web URIs, another scheme, no scheme, no authority
NoScheme == Str(Url("", "", "a.io"))
NoAuthority == Str(Url("http", "", "/x"))
AllTargets == {Undefined, Str(EmptyUrl), T1, T2, Ftp, NoScheme, NoAuthority}

\* codes: absent, "", and strings of 2 to 9 characters with and without
\* hyphen, underscore and blank
Empty == <<>>
Alnum5 == <<"a","b","c","1","2">>
Alnum8 == <<"a","b","c","d","1","2","3","4">>
Alnum9 == <<"a","b","c","d","e","1","2","3","4">>
Hyphen6 == <<"a","b","-","1","2","3">>
Underscore6 == <<"A","b","3","_","9","x">>
Blank7 == <<" ","a","b","c","1","2","3">>
AllCodes ==
    {Undefined} \cup
    {Str(c) : c \in {Empty, Short2, Alnum5, R6, A7, Alnum8, Alnum9, Hyphen6,
                     Underscore6, Blank7}}

AllBodies ==
    {<<T1, code>> : code \in AllCodes}
        \cup {<<target, code>> : target \in AllTargets,
                                 code \in {Undefined, Str(R6), Str(Short2)}}

NextVal ==
    \E r \in Reqs :
        \/ Quiet /\ \E body \in AllBodies : PostLinks(r, body[1], body[2])
        \/ CreateConnected(r)
        \/ GenSelect(r)
        \/ CheckExists(r)
        \/ Insert(r)

SpecVal == Init /\ [][NextVal]_vars

----------------------------------------------------------------------------
(* Sequential list and create requests over a wide range of query strings *)

\* a query value: the characters of the string
Chars(a, b, c) == Str(SubSeq(<<a, b, c>>, 1, IF b = "" THEN 1 ELSE IF c = "" THEN 2 ELSE 3))

Query(lim, off) == [limit |-> lim, offset |-> off]

\* limit: absent, "abc", "", "0", "-5", "2", "5", "100", "150", " 7x";
\* offset: absent, "x", "-3", "0", "1", "12"
Queries ==
    {Query(lim, Undefined) :
        lim \in {Undefined, Chars("a","b","c"), Str(<<>>), Chars("0","",""),
                 Chars("-","5",""), Chars("2","",""), Chars("5","",""),
                 Chars("1","0","0"), Chars("1","5","0"), Chars(" ","7","x")}}
        \cup {Query(Chars("5","",""), off) :
                 off \in {Chars("x","",""), Chars("-","3",""), Chars("0","",""),
                          Chars("1","",""), Chars("1","2","")}}
        \cup {Query(Chars("2","",""), Chars("1","","")),
              Query(Undefined, Chars("1","",""))}

\* ten links created one after the other before the run: codes AAAAAAA to
\* JJJJJJJ, the last of them at time 0
TenLinks ==
    {Row(0, [i \in 1..7 |-> chars[k]], T1[1], 0, k - 10, NULL) : k \in 1..10}

InitList ==
    /\ links \in InitialTables \cup {TenLinks}
    /\ links0 = links
    /\ now = 0
    /\ reqs = [r \in Reqs |-> IdleRequest]
    /\ clients = {}

NextList ==
    \E r \in Reqs :
        \/ Quiet /\ \E query \in Queries : GetLinks(r, query)
        \/ Quiet /\ \E body \in {<<T1, Undefined>>, <<T2, Str(R6)>>} :
                       PostLinks(r, body[1], body[2])
        \/ ListConnected(r)
        \/ ListSelect(r)
        \/ CreateConnected(r)
        \/ GenSelect(r)
        \/ CheckExists(r)
        \/ Insert(r)

SpecList == InitList /\ [][NextList]_vars

----------------------------------------------------------------------------
(* All five operations under concurrent requests *)

\* the steps of the handlers, list included
HandleAll(r) ==
    \/ Handle(r)
    \/ ListConnected(r)
    \/ ListSelect(r)

\* list without query string, and the second page of pages of one link
QueriesAll == {NoQuery, Query(Chars("1","",""), Chars("1","",""))}

\* the :code path parameters: both are stored in the table of two links,
\* neither in the empty table
PathCodesAll == {A7, R6}

NextAll ==
    \E r \in Reqs :
        \/ \E body \in {<<T1, Undefined>>, <<T1, Str(A7)>>} :
              PostLinks(r, body[1], body[2])
        \/ \E code \in PathCodesAll : GetCode(r, code, FALSE)
        \/ \E code \in PathCodesAll : GetLink(r, code)
        \/ \E code \in PathCodesAll : DeleteLink(r, code)
        \/ \E query \in QueriesAll : GetLinks(r, query)
        \/ HandleAll(r)

SpecAll == Init /\ [][NextAll]_vars

----------------------------------------------------------------------------
(* Store failures: pool.connect() may reject and a query may throw *)

\* what becomes of a handler whose promise rejects outside its try: the
\* router drops the rejection and no response is sent (Express 4), or the
\* router hands it to the default error handler, which answers 500
\* (Express 5)
RejectionOutcomes == {"unhandled", "default handler"}

\* `await pool.connect()` rejects: the await is before the try, so neither
\* catch nor finally runs and the handler's promise rejects
ConnectFails(r) ==
    /\ reqs[r].pc = "connect"
    /\ \E outcome \in RejectionOutcomes :
         reqs' = [reqs EXCEPT ![r].failure = "connect",
             ![r].pc = IF outcome = "unhandled" THEN "rejected" ELSE "done",
             ![r].resp = IF outcome = "unhandled" THEN NoResponse
                         ELSE Response(500, "Internal Server Error", NoBody)]
    /\ UNCHANGED <<links, now, clients, links0>>

\* the positions at which a handler awaits client.query
AtQuery(r) ==
    reqs[r].pc \in {"gen", "check", "insert", "update", "select", "delete", "list"}

\* a handler without its finally: the catch answers, the client is kept
QueryFailsHolding(r) ==
    /\ AtQuery(r)
    /\ reqs' = [reqs EXCEPT ![r].failure = "query", ![r].pc = "done",
                            ![r].resp = Response(500, "server error", NoBody)]
    /\ UNCHANGED <<links, now, clients, links0>>

\* `await client.query(...)` throws: the statement has no effect, the catch
\* answers 500 'server error' and finally releases the client
QueryFails(r) ==
    /\ AtQuery(r)
    /\ reqs' = [reqs EXCEPT ![r].failure = "query", ![r].pc = "done",
                            ![r].resp = Response(500, "server error", NoBody)]
    /\ clients' = clients \ {r}
    /\ UNCHANGED <<links, now, links0>>

NextFail ==
    \E r \in Reqs :
        \/ \E body \in {<<T1, Undefined>>, <<T1, Str(A7)>>} :
              PostLinks(r, body[1], body[2])
        \/ GetCode(r, A7, FALSE)
        \/ GetLink(r, A7)
        \/ DeleteLink(r, A7)
        \/ GetLinks(r, NoQuery)
        \/ HandleAll(r)
        \/ ConnectFails(r)
        \/ QueryFails(r)

SpecFail == Init /\ [][NextFail]_vars

\* the store answers every query it is sent, with a result or an error, and
\* pool.connect() settles; the event loop then runs the handler's
\* continuation
FairSpecFail ==
    SpecFail /\ \A r \in Reqs :
                   WF_vars(HandleAll(r) \/ ConnectFails(r) \/ QueryFails(r))

----------------------------------------------------------------------------
(* Vocabulary of the properties *)

IsDone(r) == reqs[r].pc = "done"
Status(r) == reqs[r].resp.status
Codes(rows) == {row.code : row \in rows}

\* a create request whose target and code pass the handler's validation and
\* whose code is caller-supplied
SuppliesCode(r, code) ==
    /\ reqs[r].kind = "create"
    /\ reqs[r].code = Str(code)
    /\ reqs[r].pc # "idle"

\* a create request that passed validation and gave no code
AutoCreate(r) ==
    /\ reqs[r].kind = "create"
    /\ Falsy(reqs[r].code)
    /\ reqs[r].pc \notin {"idle", "connect"}
    /\ Status(r) # 400

\* the error kinds of the registry, as the handlers answer them
CodeConflict(r) == IsDone(r) /\ Status(r) = 409
NotFound(r) == IsDone(r) /\ Status(r) = 404
InvalidTarget(r) ==
    /\ IsDone(r)
    /\ Status(r) = 400
    /\ reqs[r].resp.error \in {"target is required", "invalid target URL"}
InvalidCode(r) ==
    /\ IsDone(r)
    /\ Status(r) = 400
    /\ reqs[r].resp.error = "code must match [A-Za-z0-9]{6,8}"
CodeGenerationExhausted(r) ==
    /\ IsDone(r)
    /\ Status(r) = 500
    /\ reqs[r].resp.error = "failed to generate unique code, try again"
ServerError(r) ==
    /\ IsDone(r)
    /\ Status(r) = 500
    /\ reqs[r].resp.error = "server error"
Created(r) == IsDone(r) /\ Status(r) = 201
ReturnsTarget(r, target) ==
    /\ IsDone(r)
    /\ Status(r) \in {200, 302}
    /\ reqs[r].resp.body = <<target>>

\* some delete request for the code has removed a row
DeletedBy(code) ==
    \E r \in Reqs : /\ reqs[r].kind = "delete"
                    /\ reqs[r].code = Str(code)
                    /\ IsDone(r)
                    /\ Status(r) = 200

VisitsDone(code) ==
    {r \in Reqs : reqs[r].kind = "visit" /\ reqs[r].code = Str(code) /\ IsDone(r)}

----------------------------------------------------------------------------
(* C1 *)

\* C1: in every reachable state, whatever the interleaving of create (with a
\* caller-supplied or a generated code), visit and delete requests, table
\* links holds at most one row per code.
CodeUnique ==
    \A a \in links, b \in links : a.code = b.code => a = b

\* two creates of one code raced: both passed the existence check, one
\* inserted the row and the store rejected the other
CodeUniqueWitness ==
    \E r1 \in Reqs, r2 \in Reqs :
        /\ Created(r1)
        /\ ServerError(r2)
        /\ reqs[r2].kind = "create"
        /\ reqs[r2].finalCode = Str(reqs[r1].resp.body[1].code)
        /\ \E row \in links : row.id = r1 /\ row.code = reqs[r2].finalCode[1]

----------------------------------------------------------------------------
(* C2 *)

\* C2: while a link that was stored at start has not been deleted, every
\* finished visit of its code returned its target and its clicks is its
\* starting value plus the number of finished visits: concurrent visits in any
\* interleaving lose no increment.
NoLostVisit ==
    \A row0 \in links0 :
        ~DeletedBy(row0.code) =>
            /\ \A r \in VisitsDone(row0.code) : ReturnsTarget(r, row0.target)
            /\ \E row \in links :
                  /\ row.id = row0.id
                  /\ row.code = row0.code
                  /\ row.clicks = row0.clicks + Cardinality(VisitsDone(row0.code))

\* two visits of the stored code have both finished and the link counts
\* both
NoLostVisitWitness ==
    \E row0 \in links0 :
        /\ ~DeletedBy(row0.code)
        /\ Cardinality(VisitsDone(row0.code)) >= 2
        /\ \E row \in links : row.id = row0.id /\ row.clicks = row0.clicks + 2

----------------------------------------------------------------------------
(* C3 *)

\* C3: of the create requests that supply one valid code which was not
\* stored at start, which no request deletes and which no request generates,
\* at most one succeeds and every other finished one fails with CodeConflict
\* (409), also the one the store's uniqueness constraint rejected after it
\* passed its existence check.
RacingCreatesConflict ==
    \A code \in {R6, A7} :
        (/\ code \notin Codes(links0)
         /\ \A r \in Reqs : reqs[r].kind = "delete" => reqs[r].code # Str(code)
         /\ \A r \in Reqs : reqs[r].finalCode = Str(code) => reqs[r].code = Str(code))
        =>
        /\ Cardinality({r \in Reqs : SuppliesCode(r, code) /\ Created(r)}) <= 1
        /\ \A r \in Reqs :
              SuppliesCode(r, code) /\ IsDone(r) => Created(r) \/ CodeConflict(r)

----------------------------------------------------------------------------
(* C4 *)

\* the first two requests of a run are creates that pass validation and
\* supply the same code, which is not stored at start; the second has been
\* answered and no later request has arrived
TwoCreates(code) ==
    /\ SuppliesCode(1, code)
    /\ SuppliesCode(2, code)
    /\ Status(1) # 400
    /\ Status(2) # 400
    /\ IsDone(2)
    /\ code \notin Codes(links0)
    /\ \A r \in Reqs : r > 2 => reqs[r].pc = "idle"

\* C4: of two sequential create calls with the same valid requested code and
\* valid targets, the first succeeds and the second fails with CodeConflict;
\* the second inserts nothing and the table holds the first link as the first
\* call stored it (its target, clicks 0, last_clicked null).
SequentialCreateConflict ==
    \A code \in {R6, A7} :
        TwoCreates(code) =>
            /\ Created(1)
            /\ CodeConflict(2)
            /\ links = links0 \cup
                  {Row(1, code, reqs[1].target[1], 0,
                       reqs[1].resp.body[1].created_at, NULL)}

SequentialCreateConflictWitness ==
    \E code \in {R6, A7} : TwoCreates(code) /\ reqs[1].target # reqs[2].target

----------------------------------------------------------------------------
(* C5 *)

\* C5: a create with no requested code checks at most maxAttempts candidates.
\* A check that finds no row ends the loop with that candidate, which the
\* INSERT then stores; a check that finds a row counts an attempt, and the
\* request fails with CodeGenerationExhausted, inserting nothing, exactly
\* when that attempt is the maxAttempts-th in a row.  So a candidate found
\* free on the last attempt is still inserted.
GenerationStep(r) ==
    LET k == reqs[r].attempts
        final == reqs'[r].finalCode[1]
    IN  /\ k < maxAttempts
        /\ links' = links
        /\ \/ /\ reqs'[r].pc = "insert"
              /\ reqs'[r].attempts = k
              /\ final \in genCode(7)
              /\ WhereCode(links, final) = {}
           \/ /\ reqs'[r].pc = "gen"
              /\ reqs'[r].attempts = k + 1
              /\ k + 1 < maxAttempts
              /\ \E c \in genCode(7) : WhereCode(links, c) # {}
           \/ /\ reqs'[r].pc = "done"
              /\ reqs'[r].resp.status = 500
              /\ reqs'[r].resp.error = "failed to generate unique code, try again"
              /\ reqs'[r].attempts = k + 1
              /\ k + 1 = maxAttempts
              /\ WhereCode(links, final) # {}
              /\ \A row \in links : row.id # r

\* the INSERT of a generated code stores the candidate the loop ended with
GeneratedInsertStep(r) ==
    reqs'[r].resp.status = 201 =>
        \E row \in links' \ links :
            /\ row.id = r
            /\ row.code = reqs[r].finalCode[1]
            /\ links' = links \cup {row}

GenerationBounded ==
    [][\A r \in Reqs :
          /\ (reqs[r].pc = "gen" /\ reqs'[r] # reqs[r]) => GenerationStep(r)
          /\ (reqs[r].pc = "insert" /\ Falsy(reqs[r].code) /\ reqs'[r] # reqs[r])
                => GeneratedInsertStep(r)]_vars

\* one request exhausted the bound; another found its candidate free on the
\* last attempt and inserted it
GenerationBoundedWitness ==
    \E r1 \in Reqs, r2 \in Reqs :
        /\ CodeGenerationExhausted(r1)
        /\ reqs[r1].attempts = maxAttempts
        /\ AutoCreate(r2)
        /\ Created(r2)
        /\ reqs[r2].attempts = maxAttempts - 1

----------------------------------------------------------------------------
(* C6 *)

\* the request after r has not reached the store yet
NextNotActed(r) ==
    r + 1 \in Reqs => reqs[r + 1].pc \in {"idle", "connect"}

\* the request after r is a getMetadata of the code that r returned
MetadataFollows(r) ==
    /\ r + 1 \in Reqs
    /\ reqs[r + 1].kind = "metadata"
    /\ reqs[r + 1].code = Str(reqs[r].resp.body[1].code)
    /\ IsDone(r + 1)

\* C6: a successful create with a valid target and no requested code returns
\* a code of 6 to 8 alphanumeric characters and persists a link with that
\* target, clicks 0 and last_clicked null; a getMetadata of that code issued
\* next returns the link with clicks 0.
AutoCreateFresh ==
    \A r \in Reqs :
        AutoCreate(r) /\ Created(r) =>
            LET link == reqs[r].resp.body[1]
            IN  /\ CODE_RE(link.code)
                /\ link.target = reqs[r].target[1]
                /\ link.clicks = 0
                /\ link.last_clicked = NULL
                /\ NextNotActed(r) =>
                      \E row \in links : row.id = r /\ LinkJson(row) = link
                /\ MetadataFollows(r) =>
                      /\ Status(r + 1) = 200
                      /\ reqs[r + 1].resp.body[1].clicks = 0
                      /\ reqs[r + 1].resp.body = <<link>>

AutoCreateFreshWitness ==
    \E r \in Reqs :
        /\ AutoCreate(r)
        /\ Created(r)
        /\ reqs[r].target = T2
        /\ MetadataFollows(r)

----------------------------------------------------------------------------
(* C7 *)

\* the request r arrives in this step as a create call
CreateArrives(r) == reqs[r].pc = "idle" /\ reqs'[r].kind = "create"

\* a target that is a web URI: a string with scheme http or https and an
\* authority
ValidTarget(target) ==
    /\ target # Undefined
    /\ target[1].scheme \in {"http", "https"}
    /\ target[1].authority # ""

\* a string of 6 to 8 characters, each a letter or a digit
MatchesPattern(s) ==
    /\ Len(s) \in 6..8
    /\ \A i \in 1..Len(s) : s[i] \in Upper \cup Lower \cup Digit

\* the step answers 400 with the error and leaves table and pool alone
Rejects(r, errors) ==
    /\ reqs'[r].pc = "done"
    /\ reqs'[r].resp.status = 400
    /\ reqs'[r].resp.error \in errors
    /\ links' = links
    /\ clients' = clients

\* C7 as stated: every create call with a valid target and a requested code
\* (any string given as code) that does not match the pattern fails with
\* InvalidCode and leaves the store unchanged.
InvalidCodeRejectedAnyString ==
    [][\A r \in Reqs :
          (/\ CreateArrives(r)
           /\ ValidTarget(reqs'[r].target)
           /\ reqs'[r].code # Undefined
           /\ ~MatchesPattern(reqs'[r].code[1]))
          => Rejects(r, {"code must match [A-Za-z0-9]{6,8}"})]_vars

\* C7, amended: every create call with a valid target and a non-empty
\* requested code that does not match the pattern of 6 to 8 alphanumeric
\* characters fails with InvalidCode (400) and leaves the store unchanged,
\* whether or not the admin page's rule accepts the code.
InvalidCodeRejected ==
    [][\A r \in Reqs :
          (/\ CreateArrives(r)
           /\ ValidTarget(reqs'[r].target)
           /\ reqs'[r].code # Undefined
           /\ reqs'[r].code[1] # <<>>
           /\ ~MatchesPattern(reqs'[r].code[1]))
          => Rejects(r, {"code must match [A-Za-z0-9]{6,8}"})]_vars

\* a code the admin page accepts and one it refuses were both rejected
InvalidCodeRejectedWitness ==
    \E r1 \in Reqs, r2 \in Reqs :
        /\ InvalidCode(r1)
        /\ validateCustomCode(reqs[r1].code[1]).ok
        /\ "_" \in {reqs[r1].code[1][i] : i \in 1..Len(reqs[r1].code[1])}
        /\ InvalidCode(r2)
        /\ ~validateCustomCode(reqs[r2].code[1]).ok

----------------------------------------------------------------------------
(* C8 *)

\* C8: every create call whose target is absent, empty or no absolute http
\* or https URL fails with InvalidTarget (400) and leaves the store unchanged,
\* whatever code accompanies it: the target is validated before the code and
\* before a client is taken from the pool.
InvalidTargetRejected ==
    [][\A r \in Reqs :
          (CreateArrives(r) /\ ~ValidTarget(reqs'[r].target))
          => Rejects(r, {"target is required", "invalid target URL"})]_vars

\* an absent target, and a target of another scheme sent with a code that
\* the pattern rejects, were both answered InvalidTarget
InvalidTargetRejectedWitness ==
    \E r1 \in Reqs, r2 \in Reqs :
        /\ InvalidTarget(r1)
        /\ reqs[r1].target = Undefined
        /\ InvalidTarget(r2)
        /\ reqs[r2].target = Ftp
        /\ reqs[r2].code = Str(Short2)

----------------------------------------------------------------------------
(* C9 *)

\* the step in which the store runs the statement of request r
Runs(r, pc) == reqs[r].pc = pc /\ reqs'[r].pc = "done"

\* the rows of other codes are the same before and after the step
OthersUntouched(code) ==
    {row \in links : row.code # code} = {row \in links' : row.code # code}

\* C9: a visit of a code that exists returns that link's target and, in the
\* same step of the store, adds exactly 1 to its clicks and sets its
\* last_clicked, changing nothing else; a visit of a code that does not exist
\* fails with NotFound, creates no row and leaves the table unchanged.
VisitStep(r) ==
    LET code == reqs[r].code[1]
        q == WhereCode(links, code)
    IN  IF q = {}
        THEN /\ reqs'[r].resp.status = 404
             /\ links' = links
        ELSE /\ reqs'[r].resp.status \in {200, 302}
             /\ \A row \in q : reqs'[r].resp.body = <<row.target>>
             /\ Cardinality(WhereCode(links', code)) = Cardinality(q)
             /\ \A row \in q : \E new \in links' :
                   /\ new.id = row.id
                   /\ new.code = row.code
                   /\ new.target = row.target
                   /\ new.created_at = row.created_at
                   /\ new.clicks = row.clicks + 1
                   /\ new.last_clicked = <<now'>>
                   /\ now' >= now
             /\ OthersUntouched(code)

VisitAtomic ==
    [][\A r \in Reqs : Runs(r, "update") => VisitStep(r)]_vars

\* a visit of a stored code returned its target beside a link of another
\* code, and a visit of a code that is not stored was answered NotFound
VisitAtomicWitness ==
    \E r1 \in Reqs, r2 \in Reqs :
        /\ reqs[r1].kind = "visit"
        /\ NotFound(r1)
        /\ reqs[r2].kind = "visit"
        /\ IsDone(r2)
        /\ Status(r2) = 302
        /\ \E row \in links : row.code = reqs[r2].code[1] /\ row.clicks > 0

----------------------------------------------------------------------------
(* C10 *)

\* the DELETE of request r: an existing code is returned and its row is
\* removed; a code that is not stored is answered NotFound and the table is
\* unchanged; rows of other codes are neither removed nor altered
DeleteStep(r) ==
    LET code == reqs[r].code[1]
        q == WhereCode(links, code)
    IN  /\ IF q = {}
           THEN /\ reqs'[r].resp.status = 404
                /\ links' = links
           ELSE /\ reqs'[r].resp.status = 200
                /\ reqs'[r].resp.body = <<code>>
                /\ WhereCode(links', code) = {}
        /\ OthersUntouched(code)

\* the request after a delete that removed a code is a getMetadata or a
\* visit of that code
LookupFollowsDelete(r) ==
    /\ reqs[r].kind = "delete"
    /\ IsDone(r)
    /\ Status(r) = 200
    /\ r + 1 \in Reqs
    /\ reqs[r + 1].kind \in {"metadata", "visit"}
    /\ reqs[r + 1].code = reqs[r].code
    /\ IsDone(r + 1)

\* C10: a delete of an existing code returns that code and removes the link,
\* so that a following getMetadata and a following visit of that code fail
\* with NotFound; a delete of a code that is not stored fails with NotFound
\* and leaves the table unchanged; a delete never removes or alters a link of
\* another code.
DeleteRemoves ==
    /\ [][\A r \in Reqs : Runs(r, "delete") => DeleteStep(r)]_vars
    /\ [](\A r \in Reqs : LookupFollowsDelete(r) => NotFound(r + 1))

\* a delete removed a stored code while the link of another code stayed, and
\* the lookup that followed was answered NotFound
DeleteRemovesWitness ==
    \E r \in Reqs :
        /\ LookupFollowsDelete(r)
        /\ NotFound(r + 1)
        /\ links # {}

----------------------------------------------------------------------------
(* C11 *)

\* a list request that has computed limit and offset
Lists(r) == reqs[r].kind = "list" /\ reqs[r].pc # "idle"

\* C11: for every limit value of the caller, the limit that list passes to
\* the store lies in 1..100, and it is 50 when the value is absent or has no
\* leading number.
LimitClamped ==
    \A r \in Reqs :
        Lists(r) =>
            /\ reqs[r].limit \in 1..100
            /\ parseInt(reqs[r].query.limit) = NaN => reqs[r].limit = 50

----------------------------------------------------------------------------
(* C12 *)

\* C12: for every offset value of the caller, the offset that list passes
\* to the store is 0 when the value is absent, has no leading number or is
\* negative, and the parsed number otherwise; it is never negative.
OffsetNonNegative ==
    \A r \in Reqs :
        Lists(r) =>
            LET n == parseInt(reqs[r].query.offset)
            IN  /\ reqs[r].offset >= 0
                /\ reqs[r].offset = IF n = NaN THEN 0
                                    ELSE IF n[1] < 0 THEN 0 ELSE n[1]

----------------------------------------------------------------------------
(* C13 *)

\* the page that the SELECT of request r returns in this step, for a limit
\* and an offset the store accepts: as many rows as the table has left after
\* skipping `offset`, capped by `limit`; count is that number; the rows are
\* links of the table, each once, newest first; and the row at place i of
\* the page has place offset + i in the table ordered by created_at
\* descending
ListStep(r) ==
    LET lim == reqs[r].limit
        off == reqs[r].offset
        total == Cardinality(links)
        left == IF total - off > 0 THEN total - off ELSE 0
        page == reqs'[r].resp.body[1]
        rows == page.rows
    IN  /\ reqs'[r].resp.status = 200
        /\ Len(rows) = IF lim < left THEN lim ELSE left
        /\ page.count = Len(rows)
        /\ \A i \in 1..Len(rows) : \E row \in links : rows[i] = LinkJson(row)
        /\ \A i \in 1..Len(rows), j \in 1..Len(rows) :
              /\ i < j => rows[i].created_at >= rows[j].created_at
              /\ i # j => rows[i].code # rows[j].code
        /\ \A i \in 1..Len(rows) :
              /\ Cardinality({row \in links :
                     row.created_at > rows[i].created_at}) <= off + i - 1
              /\ Cardinality({row \in links :
                     row.created_at >= rows[i].created_at}) >= off + i

\* C13: list(limit, offset), for a limit in 1..100 and an offset of 0 or
\* more as the store receives them, returns the links ordered by created_at
\* descending, skips the first offset links and returns exactly
\* min(limit, max(0, total - offset)) rows, and reports that number as count.
ListPage ==
    [][\A r \in Reqs :
          (/\ Runs(r, "list")
           /\ reqs[r].limit \in 1..100
           /\ reqs[r].offset >= 0)
          => ListStep(r)]_vars

\* list(limit=5, offset=0) on the table of ten links returned the five
\* created last, JJJJJJJ first; and a list with an offset returned a page
\* shorter than its limit
ListPageWitness ==
    /\ links0 = TenLinks
    /\ \E r \in Reqs :
          /\ reqs[r].kind = "list"
          /\ reqs[r].query = Query(Chars("5","",""), Undefined)
          /\ IsDone(r)
          /\ links = links0
          /\ reqs[r].resp.body[1].count = 5
          /\ [i \in 1..5 |-> reqs[r].resp.body[1].rows[i].code[1]]
                = <<"J", "I", "H", "G", "F">>
    /\ \E r \in Reqs :
          /\ reqs[r].kind = "list"
          /\ IsDone(r)
          /\ Status(r) = 200
          /\ reqs[r].offset > 0
          /\ reqs[r].resp.body[1].count \in 1..(reqs[r].limit - 1)

----------------------------------------------------------------------------
(* C14 *)

\* the step is a step of request r, arrival included
StepOf(r) == reqs'[r] # reqs[r]

\* C14: getMetadata and list are pure reads: no step of a getMetadata
\* request, whether its code is stored or not, and no step of a list request,
\* whatever its limit and offset, changes the table: every link's clicks,
\* last_clicked, target and created_at and the set of stored codes stay as
\* they are.
ReadsArePure ==
    [][\A r \in Reqs :
          StepOf(r) /\ reqs'[r].kind \in {"metadata", "list"}
          => links' = links]_vars

\* a getMetadata of a stored code that has been visited and a list of the
\* table have both been answered, and the table is as it was at start
ReadsArePureWitness ==
    \E r1 \in Reqs, r2 \in Reqs :
        /\ reqs[r1].kind = "metadata"
        /\ IsDone(r1)
        /\ Status(r1) = 200
        /\ reqs[r1].resp.body[1].clicks > 0
        /\ reqs[r2].kind = "list"
        /\ IsDone(r2)
        /\ Status(r2) = 200
        /\ reqs[r2].resp.body[1].count > 0
        /\ links = links0

----------------------------------------------------------------------------
(* C15 *)

\* C15: every request that meets a store failure at any step, the step that
\* acquires the connection included, is answered with a 500 response; none
\* is left without a response.
FailureAnswered ==
    \A r \in Reqs :
        reqs[r].failure # "none" => IsDone(r) /\ Status(r) = 500

----------------------------------------------------------------------------
(* C16 *)

\* C16: when the INSERT of a create with no requested code is rejected by
\* the uniqueness constraint, because another request stored the candidate
\* after the existence check found it free, the create goes back to the
\* generation loop for a new candidate instead of failing.
GeneratedInsertRetries ==
    [][\A r \in Reqs :
          (/\ StepOf(r)
           /\ reqs[r].pc = "insert"
           /\ Falsy(reqs[r].code)
           /\ UniqueViolation(links, reqs[r].finalCode[1]))
          => reqs'[r].pc = "gen"]_vars

----------------------------------------------------------------------------
(* C17 *)

\* row and next are one link, before and after a step: a link is the row of
\* one insertion
SameLink(row, next) == next.id = row.id /\ next.code = row.code

\* the step is the UPDATE of a visit of the code
VisitOf(code) ==
    \E r \in Reqs : /\ Runs(r, "update")
                    /\ reqs[r].kind = "visit"
                    /\ reqs[r].code = Str(code)

\* C17: for every link, in every step from its creation to its deletion,
\* under any interleaving of the five operations: created_at and target do
\* not change, clicks does not decrease, and clicks and last_clicked change
\* only in the UPDATE of a visit of that link's code; the steps of create,
\* getMetadata, list, delete, and of a visit of another code leave them as
\* they are.
LinkFrame ==
    [][\A row \in links, next \in links' :
          SameLink(row, next) =>
              /\ next.created_at = row.created_at
              /\ next.target = row.target
              /\ next.clicks >= row.clicks
              /\ (next.clicks # row.clicks \/ next.last_clicked # row.last_clicked)
                    => VisitOf(row.code)]_vars

\* a link was visited while the link of another code was deleted: it has
\* its created_at and target and one more click
LinkFrameWitness ==
    \E row0 \in links0, row \in links :
        /\ SameLink(row0, row)
        /\ row.clicks = row0.clicks + 1
        /\ row.created_at = row0.created_at
        /\ row.target = row0.target
        /\ \E r \in Reqs : /\ reqs[r].kind = "delete"
                            /\ IsDone(r)
                            /\ Status(r) = 200
                            /\ reqs[r].code # Str(row.code)

----------------------------------------------------------------------------
(* C18 *)

\* the request after a delete that removed a code is a create that passes
\* validation and supplies that code, and it has been answered
RecreateFollowsDelete(r) ==
    /\ reqs[r].kind = "delete"
    /\ IsDone(r)
    /\ Status(r) = 200
    /\ r + 1 \in Reqs
    /\ SuppliesCode(r + 1, reqs[r].code[1])
    /\ Status(r + 1) # 400
    /\ IsDone(r + 1)

\* C18: delete is a hard delete: after a link has been visited and then
\* deleted, a create that supplies its code succeeds (no CodeConflict), and
\* the new link has the target of the create, clicks 0 and last_clicked null;
\* the table holds that link alone under the code.
HardDelete ==
    \A r \in Reqs :
        RecreateFollowsDelete(r) =>
            LET link == reqs[r + 1].resp.body[1]
            IN  /\ Created(r + 1)
                /\ link.code = reqs[r].code[1]
                /\ link.target = reqs[r + 1].target[1]
                /\ link.clicks = 0
                /\ link.last_clicked = NULL
                /\ NextNotActed(r + 1) =>
                      WhereCode(links, link.code)
                          = {Row(r + 1, link.code, link.target, 0,
                                 link.created_at, NULL)}

\* the deleted link had been visited and had another target
HardDeleteWitness ==
    \E r \in Reqs, row0 \in links0 :
        /\ RecreateFollowsDelete(r)
        /\ row0.code = reqs[r].code[1]
        /\ row0.clicks > 0
        /\ row0.last_clicked # NULL
        /\ row0.target # reqs[r + 1].target[1]

----------------------------------------------------------------------------
(* C19 *)

\* the handler of request r has ended
Ended(r) == reqs[r].pc \in {"done", "rejected"}

\* the handler of request r is running
Running(r) == reqs[r].pc \notin {"idle", "done", "rejected"}

\* a client is acquired by a request that awaits pool.connect() and released
\* in the step that ends its handler
AcquireReleaseStep(r) ==
    /\ (r \notin clients /\ r \in clients') => reqs[r].pc = "connect"
    /\ (r \in clients /\ r \notin clients') => reqs'[r].pc \in {"done", "rejected"}

\* C19: every connection a handler acquires is released, once, on every
\* path: success, the early 409, 404 and code-generation-exhausted returns,
\* and a store error raised by a query.  The connections held are held by
\* requests whose handlers are running, so they never outnumber the requests
\* in flight, and none is held when all requests have ended; every
\* connection that is held is eventually released, so that from some point
\* on none is held.
ConnectionsReleased ==
    /\ [](clients \subseteq {r \in Reqs : Running(r)})
    /\ [](Cardinality(clients) <= Cardinality({r \in Reqs : InFlight(r)}))
    /\ []((\A r \in Reqs : Ended(r)) => clients = {})
    /\ [][\A r \in Reqs : AcquireReleaseStep(r)]_vars
    /\ <>[](clients = {})

\* a create that was answered 409 and a request whose query failed have
\* both ended after holding a connection, and none is held
ConnectionsReleasedWitness ==
    /\ clients = {}
    /\ \A r \in Reqs : Ended(r)
    /\ \E r1 \in Reqs, r2 \in Reqs :
          /\ CodeConflict(r1)
          /\ reqs[r2].failure = "query"

----------------------------------------------------------------------------
(* C20 *)

\* a create request with a valid target whose code field is the empty string
EmptyCodeCreate(r) ==
    /\ reqs[r].kind = "create"
    /\ reqs[r].pc # "idle"
    /\ ValidTarget(reqs[r].target)
    /\ reqs[r].code = Str(<<>>)

\* C20: a create whose code field is present and empty is handled like a
\* create with no code: it is not rejected with InvalidCode, it takes the
\* generation loop and not the existence check of a requested code, and the
\* code it stores is a generated code of 7 characters.
EmptyCodeGenerates ==
    \A r \in Reqs :
        EmptyCodeCreate(r) =>
            /\ Status(r) # 400
            /\ reqs[r].pc \in {"connect", "gen", "insert", "done"}
            /\ reqs[r].pc \in {"insert", "done"} =>
                  reqs[r].finalCode[1] \in genCode(7)
            /\ Created(r) =>
                  /\ Len(reqs[r].resp.body[1].code) = 7
                  /\ reqs[r].resp.body[1].code = reqs[r].finalCode[1]

\* a create with code "" was answered 201 with a code of 7 characters
EmptyCodeGeneratesWitness ==
    \E r \in Reqs :
        /\ EmptyCodeCreate(r)
        /\ Created(r)
        /\ Len(reqs[r].resp.body[1].code) = 7
        /\ \E row \in links : row.id = r /\ Len(row.code) = 7

====
